---- MODULE Spec2Model ----
(***************************************************************************)
(* A model of sky_data_etl.py: the OpenSkyETL class (field coercion,       *)
(* extract, transform, calculate_statistics, load, run_pipeline), the      *)
(* store bootstrap init_cassandra and the __main__ entry point.            *)
(*                                                                         *)
(* Scalars.  A JSON scalar or a typed column value is a record             *)
(*   [k |-> kind, c |-> class, n |-> number, s |-> text]                   *)
(* kind  : "null", "bool", "str", "int", "float", "ts" (a datetime)        *)
(* class : for numbers, where the magnitude lies:                          *)
(*   "fin"       finite, a timestamp datetime can represent                *)
(*   "year"      a double, but a year outside 1..9999 as a timestamp       *)
(*   "localtime" a double, localtime() fails on it (OSError)               *)
(*   "time_t"    a double, outside the platform's time_t                   *)
(*   "huge"      an integer larger than the largest double                 *)
(*   "nan", "inf" the two non-finite doubles                               *)
(* text  : a sequence of tokens; " " is whitespace, any other token is a   *)
(*         run of non-whitespace characters; "7" is a digit.               *)
(***************************************************************************)
EXTENDS Integers, Sequences, FiniteSets, TLC

\* Bounds of the model.
MaxStrLen == 2
MaxStates == 2
MaxRuns == 2

VARIABLES
    \* the process and the engine session
    pc,          \* position of the running process in __main__
    run,         \* number of program executions started so far
    spark,       \* "none" | "active" | "stopped": the SparkSession of the process
    exc,         \* the exception propagating in the process, "none" if none
    raised,      \* the exception the try block of run_pipeline raised, "none" if none
    reported,    \* the message printed by the except clause, "none" if none
    log,         \* stages invoked by run_pipeline in this execution, in order
    \* the store (it outlives the process)
    keyspace,    \* whether the keyspace exists
    hasTable,    \* whether the flights table exists
    flights,     \* rows of the flights table
    \* the upstream API and the wall clock
    response,    \* the HTTP response of this execution
    clock,       \* the wall clock: datetime.now(), current_timestamp()
    \* locals of run_pipeline
    raw_data, transformed_data, statistics, count,
    \* history
    before,      \* rows of the table when this execution started
    written,     \* rows written by load, per execution
    \* application of a single function to a drawn input
    fn, arg, out

pvars == <<pc, run, spark, exc, raised, reported, log, keyspace, hasTable, flights,
           response, raw_data, transformed_data, statistics, count, before, written>>
fvars == <<fn, arg, out>>
vars == <<pvars, clock, fvars>>

-----------------------------------------------------------------------------
\* Scalars

Mk(k, c, n, s) == [k |-> k, c |-> c, n |-> n, s |-> s]

Null == Mk("null", "-", 0, <<>>)
Bool(b) == Mk("bool", "-", IF b THEN 1 ELSE 0, <<>>)
Str(s) == Mk("str", "-", 0, s)
IntV(n) == Mk("int", "fin", n, <<>>)
FloatV(n) == Mk("float", "fin", n, <<>>)
Ts(n) == Mk("ts", "fin", n, <<>>)
Unknown == Str(<<"UNKNOWN">>)

Chars == {" ", "A", "7"}
Texts == UNION {[1..n -> Chars] : n \in 0..MaxStrLen}

Nulls == {Null}
Bools == {Bool(TRUE), Bool(FALSE)}
Strs == {Str(s) : s \in Texts}
Ints == {IntV(n) : n \in -1..2}
     \cup {Mk("int", c, 1, <<>>) : c \in {"year", "localtime", "time_t", "huge"}}
Floats == {FloatV(n) : n \in -1..2}
     \cup {Mk("float", c, 1, <<>>) : c \in {"year", "localtime", "time_t", "nan", "inf"}}
\* every scalar a state vector can carry
Scalars == Nulls \cup Bools \cup Strs \cup Ints \cup Floats

\* Python truthiness: `if value`, `not value`, bool(value)
Truthy(v) ==
    CASE v.k = "null" -> FALSE
      [] v.k = "bool" -> v.n = 1
      [] v.k = "str" -> v.s # <<>>
      [] v.k \in {"int", "float"} -> ~(v.c = "fin" /\ v.n = 0)
      [] OTHER -> TRUE

\* str.strip(): leading and trailing whitespace removed
RECURSIVE LStrip(_)
LStrip(s) == IF s # <<>> /\ Head(s) = " " THEN LStrip(Tail(s)) ELSE s
RECURSIVE RStrip(_)
RStrip(s) == IF s # <<>> /\ s[Len(s)] = " " THEN RStrip(SubSeq(s, 1, Len(s) - 1)) ELSE s
Strip(s) == RStrip(LStrip(s))

\* str(value): a string is itself, any other value is its literal, one token
PyStr(v) ==
    CASE v.k = "str" -> v.s
      [] v.k = "null" -> <<"None">>
      [] v.k = "bool" -> IF v.n = 1 THEN <<"True">> ELSE <<"False">>
      [] v.k = "int" -> IF v.c = "fin" THEN <<ToString(v.n)>> ELSE <<"int:" \o v.c>>
      [] v.k = "float" -> IF v.c = "fin" THEN <<ToString(v.n) \o ".0">> ELSE <<v.c>>
      [] OTHER -> <<"ts:" \o ToString(v.n)>>

\* the result of a call: a value, or the exception it raised
Ok(v) == [ok |-> TRUE, err |-> "none", val |-> v]
Raise(e) == [ok |-> FALSE, err |-> e, val |-> Null]

\* the decimal number a text of digits denotes
RECURSIVE Digits(_)
Digits(s) == IF s = <<>> THEN 0 ELSE 10 * Digits(SubSeq(s, 1, Len(s) - 1)) + 7
IsDigits(s) == s # <<>> /\ \A i \in 1..Len(s) : s[i] = "7"

\* float(value), the builtin
PyFloat(v) ==
    CASE v.k = "null" -> Raise("TypeError")
      [] v.k = "bool" -> Ok(FloatV(v.n))
      [] v.k = "str" -> IF IsDigits(Strip(v.s)) THEN Ok(FloatV(Digits(Strip(v.s))))
                        ELSE Raise("ValueError")
      [] v.k = "int" -> IF v.c = "huge" THEN Raise("OverflowError")
                        ELSE Ok(Mk("float", v.c, v.n, <<>>))
      [] v.k = "float" -> Ok(v)
      [] OTHER -> Raise("TypeError")

\* datetime.fromtimestamp(value)
PyFromTimestamp(v) ==
    CASE v.k \in {"null", "str", "ts"} -> Raise("TypeError")
      [] v.k = "bool" -> Ok(Ts(v.n))
      [] OTHER ->
           CASE v.c = "fin" -> Ok(Ts(v.n))
             [] v.c \in {"year", "nan"} -> Raise("ValueError")
             [] v.c = "localtime" -> Raise("OSError")
             [] OTHER -> Raise("OverflowError")

\* `except (ValueError, TypeError)`
Caught(e) == e \in {"ValueError", "TypeError"}

-----------------------------------------------------------------------------
\* Field coercion

safe_float_convert(value) ==
    IF value.k = "null" THEN Ok(FloatV(0))
    ELSE LET r == PyFloat(value) IN
         IF r.ok THEN r
         ELSE IF Caught(r.err) THEN Ok(FloatV(0)) ELSE r

safe_bool_convert(value) ==
    IF value.k # "null" THEN Ok(Bool(Truthy(value))) ELSE Ok(Bool(FALSE))

safe_timestamp_convert(timestamp, now) ==
    LET r == IF Truthy(timestamp) THEN PyFromTimestamp(timestamp) ELSE Ok(Ts(now)) IN
    IF r.ok THEN r
    ELSE IF Caught(r.err) THEN Ok(Ts(now)) ELSE r

-----------------------------------------------------------------------------
\* Schema

\* self.schema: the columns in order, with their types and nullability
schema ==
    << <<"icao24", "str", TRUE>>, <<"callsign", "str", TRUE>>,
       <<"origin_country", "str", TRUE>>, <<"time_position", "ts", TRUE>>,
       <<"last_contact", "ts", TRUE>>, <<"longitude", "float", TRUE>>,
       <<"latitude", "float", TRUE>>, <<"baro_altitude", "float", TRUE>>,
       <<"on_ground", "bool", TRUE>>, <<"velocity", "float", TRUE>>,
       <<"true_track", "float", TRUE>>, <<"vertical_rate", "float", TRUE>>,
       <<"geo_altitude", "float", TRUE>>, <<"squawk", "str", TRUE>>,
       <<"spi", "bool", TRUE>>, <<"position_source", "str", TRUE>>,
       <<"ingestion_time", "ts", FALSE>> >>

Fields == {schema[i][1] : i \in 1..Len(schema)}
TypeOf(f) == LET i == CHOOSE j \in 1..Len(schema) : schema[j][1] = f IN schema[i][2]
numeric_columns == {f \in Fields : TypeOf(f) = "float"}

-----------------------------------------------------------------------------
\* Record extractor

\* `str(x) if x else 'UNKNOWN'`
StrOrUnknown(x) == IF Truthy(x) THEN Str(PyStr(x)) ELSE Unknown

\* `str(state[1]).strip() if state[1] else 'UNKNOWN'`
CallsignOf(x) == IF Truthy(x) THEN Str(Strip(PyStr(x))) ELSE Unknown

\* `if not state[0]: continue`
Skipped(state) == ~Truthy(state[1])

\* the calls of the dict display of extract, in evaluation order; state[i + 1]
\* here is state[i] in the source
FieldCalls(state, current_time, now) ==
    << <<"icao24", Ok(Str(PyStr(state[1])))>>,
       <<"callsign", Ok(CallsignOf(state[2]))>>,
       <<"origin_country", Ok(StrOrUnknown(state[3]))>>,
       <<"time_position", safe_timestamp_convert(state[4], now)>>,
       <<"last_contact", safe_timestamp_convert(state[5], now)>>,
       <<"longitude", safe_float_convert(state[6])>>,
       <<"latitude", safe_float_convert(state[7])>>,
       <<"baro_altitude", safe_float_convert(state[8])>>,
       <<"on_ground", safe_bool_convert(state[9])>>,
       <<"velocity", safe_float_convert(state[10])>>,
       <<"true_track", safe_float_convert(state[11])>>,
       <<"vertical_rate", safe_float_convert(state[12])>>,
       <<"geo_altitude", safe_float_convert(state[14])>>,
       <<"squawk", Ok(StrOrUnknown(state[15]))>>,
       <<"spi", safe_bool_convert(state[16])>>,
       <<"position_source", Ok(StrOrUnknown(state[17]))>>,
       <<"ingestion_time", Ok(Ts(current_time))>> >>


\* the flight built from one state vector, or the first exception a call raised
ExtractRecord(state, current_time, now) ==
    LET calls == FieldCalls(state, current_time, now)
        bad == {i \in 1..Len(calls) : ~calls[i][2].ok}
        first == CHOOSE i \in bad : \A j \in bad : i <= j
    IN IF bad # {} THEN Raise(calls[first][2].err)
       ELSE [ok |-> TRUE, err |-> "none",
             val |-> [f \in Fields |->
                        LET i == CHOOSE j \in 1..Len(calls) : calls[j][1] = f
                        IN calls[i][2].val]]

\* the loop of extract over data.get('states', [])
RECURSIVE ExtractLoop(_, _, _, _)
ExtractLoop(states, flightsSoFar, current_time, now) ==
    IF states = <<>> THEN [ok |-> TRUE, err |-> "none", val |-> flightsSoFar]
    ELSE IF Skipped(Head(states))
         THEN ExtractLoop(Tail(states), flightsSoFar, current_time, now)
         ELSE LET r == ExtractRecord(Head(states), current_time, now) IN
              IF r.ok
              THEN ExtractLoop(Tail(states), Append(flightsSoFar, r.val), current_time, now)
              ELSE [ok |-> FALSE, err |-> r.err, val |-> <<>>]

\* an HTTP exchange: no response at all, or a status and a JSON body whose
\* "states" member is absent, null or an array of state vectors
Unreachable == [kind |-> "unreachable", status |-> 0, states |-> <<>>]
Reply(status, kind, states) == [kind |-> kind, status |-> status, states |-> states]

\* an extract that does not look at the status of the response
ExtractAnyStatus(resp, current_time, now) ==
    IF resp.kind = "unreachable" THEN [ok |-> FALSE, err |-> "ConnectionError", val |-> <<>>]
    ELSE IF resp.kind = "null" THEN [ok |-> FALSE, err |-> "TypeError", val |-> <<>>]
    ELSE ExtractLoop(IF resp.kind = "absent" THEN <<>> ELSE resp.states,
                     <<>>, current_time, now)

\* extract(): the flights of the response, or the exception raised
Extract(resp, current_time, now) ==
    IF resp.kind = "unreachable" THEN [ok |-> FALSE, err |-> "ConnectionError", val |-> <<>>]
    ELSE IF resp.status # 200 THEN [ok |-> FALSE, err |-> "Exception", val |-> <<>>]
    ELSE IF resp.kind = "null" THEN [ok |-> FALSE, err |-> "TypeError", val |-> <<>>]
    ELSE ExtractLoop(IF resp.kind = "absent" THEN <<>> ELSE resp.states,
                     <<>>, current_time, now)

-----------------------------------------------------------------------------
\* Transformer

\* createDataFrame(data, self.schema) verifies every row against the schema:
\* the first column, in schema order, that holds None where the column is not
\* nullable (ValueError) or a value of another type (TypeError)
VerifyRow(row) ==
    LET bad == {i \in 1..Len(schema) :
                  LET v == row[schema[i][1]] IN
                  IF v.k = "null" THEN ~schema[i][3] ELSE v.k # schema[i][2]}
        first == CHOOSE i \in bad : \A j \in bad : i <= j
    IN IF bad = {} THEN "none"
       ELSE IF row[schema[first][1]].k = "null" THEN "ValueError" ELSE "TypeError"

RECURSIVE VerifyRows(_)
VerifyRows(data) ==
    IF data = <<>> THEN "none"
    ELSE IF VerifyRow(Head(data)) # "none" THEN VerifyRow(Head(data))
         ELSE VerifyRows(Tail(data))

\* df.na.fill({...}) of the four string columns
FillStrings(row) ==
    [f \in Fields |->
        IF f \in {"callsign", "origin_country", "squawk", "position_source"}
           /\ row[f].k = "null"
        THEN Unknown ELSE row[f]]

\* df.na.fill({col_name: 0.0}) of every double column: null and NaN are replaced
FillNumeric(row) ==
    [f \in Fields |->
        IF f \in numeric_columns /\ (row[f].k = "null" \/ row[f].c = "nan")
        THEN FloatV(0) ELSE row[f]]

\* coalesce(col(c), current_timestamp()) of the two timestamps
Coalesce(v, d) == IF v.k # "null" THEN v ELSE d
BackfillTimestamps(row, now) ==
    [row EXCEPT !["time_position"] = Coalesce(@, Ts(now)),
                !["last_contact"] = Coalesce(@, Ts(now))]

\* a filter that forgets the identifier
KeepWithoutIcao24(row) ==
    /\ row["time_position"].k # "null"
    /\ row["ingestion_time"].k # "null"

\* the predicate of transformed_df.filter(...)
Keep(row) ==
    /\ row["icao24"].k # "null"
    /\ row["time_position"].k # "null"
    /\ row["ingestion_time"].k # "null"

RECURSIVE MapRows(_, _)
MapRows(data, now) ==
    IF data = <<>> THEN <<>>
    ELSE <<BackfillTimestamps(FillNumeric(FillStrings(Head(data))), now)>>
         \o MapRows(Tail(data), now)

\* transform(data): the rows of the resulting data frame, or the exception
Transform(data, now) ==
    IF VerifyRows(data) # "none"
    THEN [ok |-> FALSE, err |-> VerifyRows(data), val |-> <<>>]
    ELSE [ok |-> TRUE, err |-> "none", val |-> SelectSeq(MapRows(data, now), Keep)]

-----------------------------------------------------------------------------
\* Statistics calculator

Range(s) == {s[i] : i \in 1..Len(s)}

RECURSIVE SumN(_)
SumN(vals) == IF vals = <<>> THEN 0 ELSE Head(vals).n + SumN(Tail(vals))

\* the descriptor of one double column: count of the non-null values, whether
\* they are all finite, their sum (the mean is sum / count), minimum and maximum
\* when they are, and the most frequent values (the one reported is whichever
\* the engine's sort puts first)
ColumnStatistics(rows, column) ==
    LET all == [i \in 1..Len(rows) |-> rows[i][column]]
        IsValue(v) == v.k # "null"
        vals == SelectSeq(all, IsValue)
        finite == \A i \in 1..Len(vals) : vals[i].c = "fin"
        ns == {vals[i].n : i \in 1..Len(vals)}
        freq(v) == Cardinality({i \in 1..Len(all) : all[i] = v})
    IN [count |-> Len(vals),
        finite |-> finite,
        sum |-> IF finite THEN SumN(vals) ELSE 0,
        min |-> IF finite /\ ns # {} THEN CHOOSE m \in ns : \A n \in ns : m <= n ELSE 0,
        max |-> IF finite /\ ns # {} THEN CHOOSE m \in ns : \A n \in ns : m >= n ELSE 0,
        modes |-> {v \in Range(all) : \A w \in Range(all) : freq(v) >= freq(w)}]

calculate_statistics(rows) == [c \in numeric_columns |-> ColumnStatistics(rows, c)]

-----------------------------------------------------------------------------
\* Sink loader

\* PRIMARY KEY ((icao24, ingestion_time), time_position)
Key(row) == <<row["icao24"], row["ingestion_time"], row["time_position"]>>

\* the tables an append of `rows` can leave: a row replaces the stored row of
\* the same key, and of several written rows with one key any one may be last
SaveAppend(table, rows) ==
    LET keys == {Key(r) : r \in rows}
        kept == {t \in table : Key(t) \notin keys}
    IN {kept \cup S : S \in {T \in SUBSET rows :
                               \A k \in keys : Cardinality({r \in T : Key(r) = k}) = 1}}

-----------------------------------------------------------------------------
\* Inputs

\* a well-formed state vector of 17 positions, as the API documents them
BaseVector ==
    << Str(<<"A">>), Str(<<"A", " ">>), Str(<<"A">>), IntV(1), IntV(2),
       FloatV(1), FloatV(2), FloatV(1), Bool(FALSE), FloatV(1), FloatV(1),
       FloatV(0), Null, FloatV(1), Str(<<"7">>), Bool(FALSE), IntV(0) >>

\* scalars probing the coercion of a position: missing, falsy, ill-typed and
\* out of range
Probes == {Null, IntV(0), Str(<<"A">>), Mk("int", "huge", 1, <<>>),
           Mk("float", "time_t", 1, <<>>)}

\* state vectors: any scalar as identifier or callsign, a probe anywhere else
Vectors ==
    {[BaseVector EXCEPT ![i] = v] : i \in 1..2, v \in Scalars}
    \cup {[BaseVector EXCEPT ![i] = v] : i \in 3..17, v \in Probes}

SeqsUpTo(S, n) == UNION {[1..m -> S] : m \in 0..n}

\* the typed row extract builds from the well-formed vector
BaseRow == ExtractRecord(BaseVector, 1, 1).val

\* rows a caller of transform can pass: any column None, any of the three key
\* columns None together, a NaN and a value of the wrong type
Rows ==
    {BaseRow}
    \cup {[BaseRow EXCEPT ![f] = Null] : f \in Fields}
    \cup {[f \in Fields |-> IF f \in N THEN Null ELSE BaseRow[f]] :
            N \in SUBSET {"icao24", "time_position", "ingestion_time"}}
    \cup {[BaseRow EXCEPT !["longitude"] = Mk("float", "nan", 1, <<>>)],
          [BaseRow EXCEPT !["longitude"] = IntV(1)],
          [BaseRow EXCEPT !["icao24"] = Str(<<"7">>), !["time_position"] = Null]}

-----------------------------------------------------------------------------
\* The process at rest: no execution started, an empty store

NoReply == Reply(0, "none", <<>>)

AtRest ==
    /\ pc = "idle" /\ run = 0 /\ spark = "none"
    /\ exc = "none" /\ raised = "none" /\ reported = "none" /\ log = <<>>
    /\ keyspace = FALSE /\ hasTable = FALSE /\ flights = {}
    /\ response = NoReply
    /\ raw_data = <<>> /\ transformed_data = <<>> /\ count = 0
    /\ statistics = calculate_statistics(<<>>)
    /\ before = {} /\ written = [r \in 1..MaxRuns |-> {}]

-----------------------------------------------------------------------------
\* The coercion functions applied to every scalar

InitCoerce ==
    /\ AtRest
    /\ clock \in 1..MaxRuns
    /\ fn = "none" /\ arg \in Scalars /\ out = Ok(Null)

CallFloat ==
    /\ fn = "none"
    /\ fn' = "safe_float_convert" /\ out' = safe_float_convert(arg)
    /\ UNCHANGED <<pvars, clock, arg>>

CallBool ==
    /\ fn = "none"
    /\ fn' = "safe_bool_convert" /\ out' = safe_bool_convert(arg)
    /\ UNCHANGED <<pvars, clock, arg>>

CallTimestamp ==
    /\ fn = "none"
    /\ fn' = "safe_timestamp_convert" /\ out' = safe_timestamp_convert(arg, clock)
    /\ UNCHANGED <<pvars, clock, arg>>

NextCoerce == CallFloat \/ CallBool \/ CallTimestamp
SpecCoerce == InitCoerce /\ [][NextCoerce]_vars

-----------------------------------------------------------------------------
\* extract applied to every response of up to MaxStates state vectors

InitExtract ==
    /\ AtRest
    /\ clock \in 1..MaxRuns
    /\ fn = "none" /\ arg \in SeqsUpTo(Vectors, MaxStates)
    /\ out = [ok |-> TRUE, err |-> "none", val |-> <<>>]

CallExtract ==
    /\ fn = "none"
    /\ fn' = "extract" /\ out' = Extract(Reply(200, "array", arg), clock, clock)
    /\ UNCHANGED <<pvars, clock, arg>>

NextExtract == CallExtract
SpecExtract == InitExtract /\ [][NextExtract]_vars

-----------------------------------------------------------------------------
\* transform, then load, applied to every batch of up to MaxStates rows

InitTransform ==
    /\ pc = "idle" /\ run = 0 /\ spark = "none"
    /\ exc = "none" /\ raised = "none" /\ reported = "none" /\ log = <<>>
    /\ keyspace = TRUE /\ hasTable = TRUE /\ flights = {}
    /\ response = NoReply
    /\ raw_data = <<>> /\ transformed_data = <<>> /\ count = 0
    /\ statistics = calculate_statistics(<<>>)
    /\ before = {} /\ written = [r \in 1..MaxRuns |-> {}]
    /\ clock \in 1..MaxRuns
    /\ fn = "none" /\ arg \in SeqsUpTo(Rows, MaxStates)
    /\ out = [ok |-> TRUE, err |-> "none", val |-> <<>>]

CallTransform ==
    /\ fn = "none"
    /\ fn' = "transform" /\ out' = Transform(arg, clock)
    /\ UNCHANGED <<pvars, clock, arg>>

CallLoad ==
    /\ fn = "transform" /\ out.ok /\ Len(out.val) > 0
    /\ fn' = "load"
    /\ flights' \in SaveAppend(flights, Range(out.val))
    /\ UNCHANGED <<pc, run, spark, exc, raised, reported, log, keyspace, hasTable,
                   response, raw_data, transformed_data, statistics, count, before,
                   written, clock, arg, out>>

NextTransform == CallTransform \/ CallLoad
SpecTransform == InitTransform /\ [][NextTransform]_vars

-----------------------------------------------------------------------------
\* The program: __main__ run up to MaxRuns times against one store

\* state vectors the upstream answers with: two aircraft, one of them twice
\* under another callsign, vectors without identifier, and one whose
\* longitude no double can hold
Upstream ==
    {BaseVector,
     [BaseVector EXCEPT ![2] = Str(<<" ">>)],
     [BaseVector EXCEPT ![1] = Str(<<"7">>), ![4] = Null],
     [BaseVector EXCEPT ![1] = Null],
     [BaseVector EXCEPT ![1] = Str(<<>>)],
     [BaseVector EXCEPT ![6] = Mk("int", "huge", 1, <<>>)]}

Responses ==
    {Unreachable, Reply(404, "array", <<>>), Reply(503, "array", <<>>),
     Reply(200, "absent", <<>>), Reply(200, "null", <<>>)}
    \cup {Reply(200, "array", s) : s \in SeqsUpTo(Upstream, MaxStates)}

Init ==
    /\ AtRest
    /\ clock = 0
    /\ fn = "none" /\ arg = <<>> /\ out = Ok(Null)

\* etl = OpenSkyETL(): the session is acquired
Start ==
    /\ pc = "idle" /\ run < MaxRuns
    /\ run' = run + 1
    /\ clock' = clock + 1
    /\ spark' = "active"
    /\ pc' = "init_cassandra"
    /\ exc' = "none" /\ raised' = "none" /\ reported' = "none" /\ log' = <<>>
    /\ response' = NoReply
    /\ raw_data' = <<>> /\ transformed_data' = <<>> /\ count' = 0
    /\ statistics' = calculate_statistics(<<>>)
    /\ before' = flights
    /\ UNCHANGED <<keyspace, hasTable, flights, written, fvars>>

\* a bootstrap without the DROP TABLE (CREATE TABLE IF NOT EXISTS)
InitCassandraKeepsTable ==
    /\ pc = "init_cassandra"
    /\ keyspace' = TRUE /\ hasTable' = TRUE /\ flights' = flights
    /\ pc' = "extract"
    /\ UNCHANGED <<run, spark, exc, raised, reported, log, response, raw_data,
                   transformed_data, statistics, count, before, written, clock, fvars>>

\* self.init_cassandra(): connect, CREATE KEYSPACE IF NOT EXISTS, DROP TABLE IF
\* EXISTS, CREATE TABLE, shutdown; `failing` is the statement the driver
\* raises at, "none" if none does
InitCassandra ==
    /\ pc = "init_cassandra"
    /\ \E failing \in {"none", "connect", "keyspace", "drop", "create", "shutdown"} :
        /\ keyspace' = IF failing \in {"connect", "keyspace"} THEN keyspace ELSE TRUE
        /\ hasTable' = CASE failing \in {"connect", "keyspace", "drop"} -> hasTable
                         [] failing = "create" -> FALSE
                         [] OTHER -> TRUE
        /\ flights' = IF failing \in {"connect", "keyspace", "drop"} THEN flights ELSE {}
        /\ exc' = IF failing = "none" THEN "none" ELSE "DriverException"
        /\ pc' = IF failing = "none" THEN "extract" ELSE "exit"
    /\ UNCHANGED <<run, spark, raised, reported, log, response, raw_data,
                   transformed_data, statistics, count, before, written, clock, fvars>>

\* a run that goes on to transform even when nothing was extracted
AfterExtractNoEmptyStop(resp, r) ==
    /\ response' = resp
    /\ log' = Append(log, "extract")
    /\ raw_data' = r.val
    /\ raised' = r.err
    /\ pc' = IF ~r.ok THEN "except" ELSE "transform"

\* raw_data = <the result r of self.extract()>; if not raw_data: return
AfterExtract(resp, r) ==
    /\ response' = resp
    /\ log' = Append(log, "extract")
    /\ raw_data' = r.val
    /\ raised' = r.err
    /\ pc' = IF ~r.ok THEN "except"
             ELSE IF r.val = <<>> THEN "finally" ELSE "transform"

\* the try block up to the empty-batch return: the upstream is asked once
ExtractStage ==
    /\ pc = "extract"
    /\ \E resp \in Responses : AfterExtract(resp, Extract(resp, clock, clock))
    /\ UNCHANGED <<run, spark, exc, reported, keyspace, hasTable, flights,
                   transformed_data, statistics, count, before, written, clock, fvars>>

\* a pipeline that loads before it reports the statistics
AfterTransformSkipsStatistics(r) ==
    /\ transformed_data' = r.val
    /\ raised' = r.err
    /\ pc' = IF r.ok THEN "count" ELSE "except"

\* transformed_data = <the result r of self.transform(raw_data)>
AfterTransform(r) ==
    /\ transformed_data' = r.val
    /\ raised' = r.err
    /\ pc' = IF r.ok THEN "statistics" ELSE "except"

\* the engine failing under a call
EngineFailure == [ok |-> FALSE, err |-> "Py4JJavaError", val |-> <<>>]

\* self.transform(raw_data), which the engine may fail
TransformStage ==
    /\ pc = "transform"
    /\ log' = Append(log, "transform")
    /\ \/ AfterTransform(Transform(raw_data, clock))
       \/ AfterTransform(EngineFailure)
    /\ UNCHANGED <<run, spark, exc, reported, keyspace, hasTable, flights, response,
                   raw_data, statistics, count, before, written, clock, fvars>>

\* statistics = self.calculate_statistics(transformed_data), then printed
StatisticsStage ==
    /\ pc = "statistics"
    /\ log' = Append(log, "statistics")
    /\ \E engine_fails \in BOOLEAN :
        /\ statistics' = IF engine_fails THEN statistics
                         ELSE calculate_statistics(transformed_data)
        /\ raised' = IF engine_fails THEN "Py4JJavaError" ELSE "none"
        /\ pc' = IF engine_fails THEN "except" ELSE "count"
    /\ UNCHANGED <<run, spark, exc, reported, keyspace, hasTable, flights, response,
                   raw_data, transformed_data, count, before, written, clock, fvars>>

\* count = transformed_data.count(); if count > 0: ... else: ...
CountStage ==
    /\ pc = "count"
    /\ \E engine_fails \in BOOLEAN :
        /\ count' = IF engine_fails THEN count ELSE Len(transformed_data)
        /\ raised' = IF engine_fails THEN "Py4JJavaError" ELSE "none"
        /\ pc' = IF engine_fails THEN "except"
                 ELSE IF count' > 0 THEN "load" ELSE "finally"
    /\ UNCHANGED <<run, spark, exc, reported, log, keyspace, hasTable, flights, response,
                   raw_data, transformed_data, statistics, before, written, clock, fvars>>

\* self.load(transformed_data): every row is appended, or the write fails
\* after any of them were
LoadStage ==
    /\ pc = "load"
    /\ log' = Append(log, "load")
    /\ \E engine_fails \in BOOLEAN :
       \E rows \in SUBSET Range(transformed_data) :
        /\ engine_fails \/ rows = Range(transformed_data)
        /\ flights' \in SaveAppend(flights, rows)
        /\ written' = [written EXCEPT ![run] = @ \cup rows]
        /\ raised' = IF engine_fails THEN "Py4JJavaError" ELSE "none"
        /\ pc' = IF engine_fails THEN "except" ELSE "finally"
    /\ UNCHANGED <<run, spark, exc, reported, keyspace, hasTable, response, raw_data,
                   transformed_data, statistics, count, before, clock, fvars>>

\* an except clause that prints the error and does not raise it again
ExceptStageSwallows ==
    /\ pc = "except"
    /\ reported' = raised
    /\ raised' = "none"
    /\ pc' = "finally"
    /\ UNCHANGED <<run, spark, exc, log, keyspace, hasTable, flights, response,
                   raw_data, transformed_data, statistics, count, before, written,
                   clock, fvars>>

\* except Exception as e: print(...); raise
ExceptStage ==
    /\ pc = "except"
    /\ reported' = raised
    /\ pc' = "finally"
    /\ UNCHANGED <<run, spark, exc, raised, log, keyspace, hasTable, flights, response,
                   raw_data, transformed_data, statistics, count, before, written,
                   clock, fvars>>

\* finally: self.spark.stop(); then the pending exception, if any, leaves
\* run_pipeline
FinallyStage ==
    /\ pc = "finally"
    /\ spark' = "stopped"
    /\ exc' = raised
    /\ pc' = "exit"
    /\ UNCHANGED <<run, raised, reported, log, keyspace, hasTable, flights, response,
                   raw_data, transformed_data, statistics, count, before, written,
                   clock, fvars>>

\* the process ends, with the exception that reached __main__ if any
Exit ==
    /\ pc = "exit"
    /\ pc' = "idle"
    /\ UNCHANGED <<run, spark, exc, raised, reported, log, keyspace, hasTable, flights,
                   response, raw_data, transformed_data, statistics, count, before,
                   written, clock, fvars>>

Next ==
    \/ Start
    \/ InitCassandra
    \/ ExtractStage
    \/ TransformStage
    \/ StatisticsStage
    \/ CountStage
    \/ LoadStage
    \/ ExceptStage
    \/ FinallyStage
    \/ Exit

Spec == Init /\ [][Next]_vars

-----------------------------------------------------------------------------
\* Properties

\* the response of this execution carried a status other than 200
HttpFailure == response.kind \notin {"none", "unreachable"} /\ response.status # 200

\* the response carried an array of state vectors none of which extract keeps
EmptyBatch ==
    /\ response.kind = "array" /\ response.status = 200
    /\ \A i \in 1..Len(response.states) : Skipped(response.states[i])

\* init_cassandra of this execution has returned
Bootstrapped ==
    \/ pc \in {"extract", "transform", "statistics", "count", "load", "except", "finally"}
    \/ pc \in {"exit", "idle"} /\ log # <<>>

KeysPresent(row) ==
    /\ row["icao24"].k # "null"
    /\ row["time_position"].k # "null"
    /\ row["ingestion_time"].k # "null"

StageOrder == <<"extract", "transform", "statistics", "load">>

\* C1: on every path from the acquisition of the session to the exit of the
\* process, the session has been released (spark.stop was called) when the
\* process exits.
C1_SessionReleasedAtExit == pc = "exit" => spark = "stopped"

\* C2 as stated: when the HTTP status is not success the run ends with a fatal
\* error, nothing was written and the flights table holds what it held before
\* the run started.
C2_NoStateMutation ==
    HttpFailure /\ pc = "exit" =>
        exc # "none" /\ written[run] = {} /\ flights = before

\* C2 as amended: when the HTTP status is not success, extract raises, no later
\* stage is invoked, load writes nothing and the error reaches the caller; the
\* only change to the store is the one the bootstrap made before the fetch,
\* which leaves the flights table empty.
C2_NoLoadAfterFetchFailure ==
    HttpFailure =>
        /\ pc \in {"except", "finally", "exit", "idle"}
        /\ raised = "Exception"
        /\ log = <<"extract">>
        /\ written[run] = {}
        /\ flights = {}
        /\ pc \in {"exit", "idle"} => exc = "Exception"

C2_Witness == HttpFailure /\ pc = "exit" /\ before # {}

\* C3: once a stage of run_pipeline has raised, no further stage is invoked,
\* the error stays pending until the process ends, it has been printed before
\* the session is released, and when run_pipeline is left the session is
\* released and that same error is the one the caller gets.
C3_ErrorAbortsRun ==
    /\ [][raised # "none" /\ pc' # "init_cassandra" => log' = log /\ raised' = raised]_vars
    /\ [](raised # "none" /\ pc \in {"finally", "exit", "idle"} => reported = raised)
    /\ [](raised # "none" /\ pc \in {"exit", "idle"} => spark = "stopped" /\ exc = raised)
    /\ [](raised # "none" => pc \in {"except", "finally", "exit", "idle"})

C3_Witness ==
    /\ pc = "exit" /\ raised = "Py4JJavaError" /\ exc = raised
    /\ log = <<"extract", "transform">>

\* C4: every row of the flights table, and every row transform returns (the
\* batch load is given), has icao24, time_position and ingestion_time present.
C4_KeysNeverNull ==
    /\ \A row \in flights : KeysPresent(row)
    /\ fn \in {"transform", "load"} /\ out.ok =>
        \A i \in 1..Len(out.val) : KeysPresent(out.val[i])

C4_Witness ==
    /\ fn = "load" /\ flights # {}
    /\ \E i \in 1..Len(arg) : arg[i]["icao24"].k = "null"
    /\ \E i \in 1..Len(arg) : arg[i]["icao24"].k # "null" /\ arg[i]["time_position"].k = "null"

\* C5: when the states array is empty, or every state vector is dropped, only
\* Extract is invoked in that run, no error is raised or reported, nothing is
\* written and the run goes straight to its end.
C5_EmptyBatchHalts ==
    EmptyBatch =>
        /\ log = <<"extract">>
        /\ raised = "none" /\ exc = "none" /\ reported = "none"
        /\ pc \in {"finally", "exit", "idle"}
        /\ written[run] = {}

C5_Witness == EmptyBatch /\ response.states # <<>> /\ pc = "exit" /\ spark = "stopped"

\* C6: once the bootstrap of an execution has returned, the flights table
\* holds no row loaded by an earlier execution, and only rows loaded by this
\* one; it is empty when Extract starts.
C6_BootstrapDestroysEarlierRuns ==
    Bootstrapped =>
        /\ hasTable
        /\ \A r \in 1..MaxRuns : r < run => flights \cap written[r] = {}
        /\ flights \subseteq written[run]
        /\ pc = "extract" => flights = {}

C6_Witness == run = 2 /\ before # {} /\ pc = "exit" /\ flights # {}

\* C7: each of the three coercion functions returns a value of its type for
\* every scalar, whatever its magnitude; no error escapes.
C7_CoercionTotal ==
    /\ fn = "safe_float_convert" => out.ok /\ out.val.k = "float"
    /\ fn = "safe_bool_convert" => out.ok /\ out.val.k = "bool"
    /\ fn = "safe_timestamp_convert" => out.ok /\ out.val.k = "ts"

\* C8: extract returns, in input order, one record for each state vector
\* whose identifier is neither null nor empty, and none for the others.
HasIdentifier(state) == state[1] # Null /\ state[1] # Str(<<>>)
C8_DropsExactlyMissingIdentifiers ==
    fn = "extract" =>
        LET kept == SelectSeq(arg, HasIdentifier) IN
        /\ out.ok
        /\ Len(out.val) = Len(kept)
        /\ \A i \in 1..Len(kept) : out.val[i]["icao24"] = Str(PyStr(kept[i][1]))

\* C9: the stages a run has invoked are a prefix of Extract, Transform,
\* Statistics, Load, so Load is invoked at most once and last; when it is,
\* Extract returned a batch that was not empty and the counted batch is the
\* transformed one, with a count above zero.
C9_StageOrder ==
    /\ Len(log) <= Len(StageOrder)
    /\ log = SubSeq(StageOrder, 1, Len(log))
    /\ pc = "load" => log = SubSeq(StageOrder, 1, 3)
    /\ (Len(log) = 4 \/ pc = "load") =>
        /\ raw_data # <<>>
        /\ count > 0
        /\ count = Len(transformed_data)

C9_Witness == log = StageOrder /\ pc = "exit" /\ exc = "none"

\* C10: every record extract returns has the trimmed raw callsign, and
\* "UNKNOWN" when the raw callsign is null or empty, also when it is empty once
\* trimmed; no callsign is empty or starts or ends with whitespace.
C10_CallsignTrimmedOrUnknown ==
    fn = "extract" /\ out.ok =>
        LET kept == SelectSeq(arg, LAMBDA state : ~Skipped(state)) IN
        \A i \in 1..Len(out.val) :
            LET raw == kept[i][2]
                cs == out.val[i]["callsign"] IN
            /\ cs.k = "str" /\ cs.s # <<>>
            /\ Head(cs.s) # " " /\ cs.s[Len(cs.s)] # " "
            /\ raw.k = "null" => cs = Unknown
            /\ raw.k = "str" =>
                cs = IF Strip(raw.s) = <<>> THEN Unknown ELSE Str(Strip(raw.s))

====
